---------------------------- MODULE Spec2Model ----------------------------
(***************************************************************************)
(* A model of nanohttp's WSGI dispatcher, Application.__call__, and of its *)
(* error path, Application._handle_exception (nanohttp/application.py).    *)
(*                                                                         *)
(* One request is one call of the application by the host followed by the  *)
(* host's iteration of what the call returned: the list built by the error *)
(* path, or the generator _response().  A call runs to its return without  *)
(* giving up its thread, and so does every resumption of the generator, so *)
(* each is one action.  The ambient context (nanohttp.contexts.context) is *)
(* a slot per thread.                                                      *)
(***************************************************************************)
EXTENDS Integers, Sequences, FiniteSets, TLC

\* The longest sequence a handler returns.
MaxLen == 2

\* The longest request path.
MaxPath == 4

Requests == {1, 2}

Threads == {1, 2}

-----------------------------------------------------------------------------
(* Values *)

\* A status line, "<code> <reason>", kept as its two parts.
Status(code, reason) == [code |-> code, reason |-> reason]

STATUS_OK == Status(200, "OK")

STATUS_500 == Status(500, "Internal Server Error")

\* An optional attribute is the set of its values: empty when the object
\* has no such attribute (hasattr is false).
NoOverride == {}

Override(code) == {code}

\* A failure (exception object): kind "http" is an instance of HTTPStatus.
Failure(kind, status, custom, headers, text) ==
    [kind |-> kind, status |-> status, custom |-> custom,
     headers |-> headers, text |-> text]

Other(text) == Failure("other", Status(0, ""), NoOverride, <<>>, text)

NoFailure == Failure("none", Status(0, ""), NoOverride, <<>>, "")

HTTPNotFound == Failure("http", Status(404, "Not Found"), NoOverride, <<>>, "nf")

HTTPBadRequest ==
    Failure("http", Status(400, "Bad Request"), Override(4001),
            << <<"x-reason", "1">> >>, "bad")

HTTPBadRequestPlain ==
    Failure("http", Status(400, "Bad Request"), NoOverride, <<>>, "bad")

HTTPNotModified ==
    Failure("http", Status(304, "Not Modified"), NoOverride,
            << <<"etag", "7">> >>, "nm")

HTTPConflict ==
    Failure("http", Status(409, "Conflict"), Override(500), <<>>, "cf")

HTTPFailures ==
    {HTTPNotFound, HTTPBadRequest, HTTPBadRequestPlain, HTTPNotModified,
     HTTPConflict}

HookError == Other("hook")

CookieError == Other("cookie")

StopIteration == Other("StopIteration")

ValueError == Other("ValueError")

TypeError == Other("TypeError")

Boom == Other("boom")

\* An element of a handler's sequence: text, bytes, something that cannot
\* be encoded, or (generators only) a raise in place of the yield.
Item(t, s) == [t |-> t, s |-> s]

Bytes(s) == Item("bytes", s)

TextItems == {Item("str", "a"), Item("str", "b")}

PlainItems == TextItems \cup {Item("int", "7")}

GenItems == PlainItems \cup {Item("raise", "boom"), Item("raise", "404")}

RaisedBy(item) == IF item.s = "404" THEN HTTPNotFound ELSE Boom

RECURSIVE SeqsUpTo(_, _)
SeqsUpTo(S, n) ==
    IF n = 0 THEN {<<>>}
    ELSE LET shorter == SeqsUpTo(S, n - 1)
         IN  shorter \cup {Append(q, x) : q \in {p \in shorter : Len(p) = n - 1}, x \in S}

\* What a handler returns.
Value(kind, s, items) == [kind |-> kind, s |-> s, items |-> items]

FalsyValues ==
    {Value("none", "", <<>>), Value("str", "", <<>>), Value("bytes", "", <<>>),
     Value("list", "", <<>>), Value("int", "0", <<>>), Value("bool", "False", <<>>)}

StringValues == {Value("str", "Index", <<>>), Value("bytes", "raw", <<>>)}

UnsupportedValues == {Value("int", "5", <<>>), Value("object", "obj", <<>>)}

GeneratorValues == {Value("gen", "", q) : q \in SeqsUpTo(GenItems, MaxLen)}

ListValues == {Value("list", "", q) : q \in SeqsUpTo(PlainItems, MaxLen) \ {<<>>}}

Values ==
    FalsyValues \cup StringValues \cup UnsupportedValues \cup GeneratorValues
    \cup ListValues

\* Truthy as "is not None": zero, False and the empty containers pass.
TruthyNotNone(v) == v.kind # "none"

\* Python's truth value of a handler's return value.
Truthy(v) ==
    CASE v.kind = "none" -> FALSE
      [] v.kind \in {"str", "bytes"} -> v.s # ""
      [] v.kind = "list" -> v.items # <<>>
      [] v.kind = "int" -> v.s # "0"
      [] v.kind = "bool" -> v.s # "False"
      [] OTHER -> TRUE

-----------------------------------------------------------------------------
(* The error path: Application._handle_exception *)

DefaultHeaders == << <<"content-type", "text/plain">> >>

NO_CONTENT_STATUSES == {204, 304}

\* HTTPStatus.status_format(): the code and the text of the status line.
StatusFormat(ex) == <<ex.status.code, ex.status.reason>>

\* str() of an identity's id.
Str(id) == CASE id = 7 -> "7" [] id = 8 -> "8" [] OTHER -> "?"

\* The first three characters of a status line.
StatusPrefix(status) == status.code

ErrorStatus(ex) == IF ex.kind = "http" THEN ex.status ELSE STATUS_500

\* EnvelopeCode without the custom_status_code override.
EnvelopeCodeOfStatus(ex) ==
    IF ex.kind = "http" THEN StatusFormat(ex)[1] ELSE 500

EnvelopeCode(ex) ==
    IF ex.kind = "http"
    THEN IF ex.custom # {} THEN CHOOSE c \in ex.custom : TRUE
         ELSE StatusFormat(ex)[1]
    ELSE 500

\* EnvelopeMessage with the text of the failure as the message.
EnvelopeMessageOfFailure(ex) ==
    IF ex.kind = "http" THEN StatusFormat(ex)[2] ELSE ex.text

EnvelopeMessage(ex) ==
    IF ex.kind = "http" THEN StatusFormat(ex)[2] ELSE "Internal Server Error"

\* traceback.format_exc() of the failure being handled.
StackTrace(ex) == [null |-> FALSE, of |-> ex.text]

NullTrace == [null |-> TRUE, of |-> ""]

\* Envelope with the trace whatever settings.debug is.
EnvelopeWithTrace(ex, dbg) ==
    [statusCode |-> EnvelopeCode(ex),
     message |-> EnvelopeMessage(ex),
     stackTrace |-> StackTrace(ex),
     messageFa |-> IF ex.kind = "http" THEN ex.text ELSE "fa500"]

Envelope(ex, dbg) ==
    [statusCode |-> EnvelopeCode(ex),
     message |-> EnvelopeMessage(ex),
     stackTrace |-> IF dbg THEN StackTrace(ex) ELSE NullTrace,
     messageFa |-> IF ex.kind = "http" THEN ex.text ELSE "fa500"]

NoEnvelope ==
    [statusCode |-> 0, message |-> "", stackTrace |-> NullTrace, messageFa |-> ""]

\* ErrorLog deciding by the code of the status line.
ErrorLogByStatus(ex, dbg) ==
    IF ErrorStatus(ex).code \in {400, 500}
    THEN << [level |-> "error",
             statusCode |-> ErrorStatus(ex).code,
             message |-> <<ErrorStatus(ex).reason, ex.text>>,
             stackTrace |-> StackTrace(ex)] >>
    ELSE <<>>

\* The record logged at error severity for the codes 400 and 500.
ErrorLog(ex, dbg) ==
    IF Envelope(ex, dbg).statusCode \in {400, 500}
    THEN << [level |-> "error",
             statusCode |-> Envelope(ex, dbg).statusCode,
             message |-> <<Envelope(ex, dbg).message, ex.text>>,
             stackTrace |-> StackTrace(ex)] >>
    ELSE <<>>

\* idn: the identity of the ambient context, as the set of its ids.
ErrorHeaders(ex, idn) ==
    LET base == IF ex.kind = "http" /\ ex.headers # <<>>
                THEN ex.headers ELSE DefaultHeaders
    IN  IF idn # {}
        THEN Append(base, <<"X-Identity", Str(CHOOSE i \in idn : TRUE)>>)
        ELSE base

JsonChunk == Bytes("json")

\* ErrorBody without the no-content test.
ErrorBodyAlways(ex) == <<JsonChunk>>

ErrorBody(ex) ==
    IF StatusPrefix(ErrorStatus(ex)) \in NO_CONTENT_STATUSES
    THEN <<>> ELSE <<JsonChunk>>

-----------------------------------------------------------------------------
(* The success path: Application.__call__ up to the commit *)

\* Context.encode_response(chunk): text becomes bytes, bytes stay, anything
\* else has no encode and fails.
Encodable(item) == item.t \in {"str", "bytes"}

Encode(item) == Bytes(item.s)

None == <<>>

Some(x) == <<x>>

\* What the host asks for: the hooks' and the handler's behaviour.
\* kept: the failure raised is an object the handler keeps and raises again
\* (a module-level instance), not one built for this request.
Input(beginRequest, raises, kept, value, identity, beginResponse, cookies) ==
    [beginRequest |-> beginRequest, raises |-> raises, kept |-> kept,
     value |-> value, identity |-> identity, beginResponse |-> beginResponse,
     cookies |-> cookies]

NoValue == Value("none", "", <<>>)

NoInput == Input("ok", None, FALSE, NoValue, {}, "ok", "none")

Identities == {{}, {7}}

InputsOver(values, failures) ==
    {Input("raise", None, FALSE, NoValue, i, "ok", "none") : i \in Identities}
    \cup {Input("ok", Some(f), k, NoValue, i, "ok", "none") :
            f \in failures, k \in BOOLEAN, i \in Identities}
    \cup {Input("ok", None, FALSE, v, i, b, c) :
            v \in values, i \in Identities, b \in {"ok", "raise"},
            c \in {"none", "one", "fail"}}

Inputs == InputsOver(Values, HTTPFailures \cup {Boom})

\* A request path is the sequence of its characters.
PathChars == {"/", "a", "b", "?"}

RootPath == <<"/">>

Paths == {p \in SeqsUpTo(PathChars, MaxPath) : p # <<>> /\ Head(p) = "/"}

\* str.rstrip(ch)
RECURSIVE RStrip(_, _)
RStrip(p, ch) ==
    IF p # <<>> /\ p[Len(p)] = ch THEN RStrip(SubSeq(p, 1, Len(p) - 1), ch) ELSE p

\* p[1:]
DropFirst(p) == IF p = <<>> THEN <<>> ELSE Tail(p)

\* str.split(ch): the pieces between the occurrences of ch, empty ones too.
RECURSIVE SplitAt(_, _)
SplitAt(p, ch) ==
    LET at == {i \in DOMAIN p : p[i] = ch}
    IN  IF at = {} THEN <<p>>
        ELSE LET i == CHOOSE j \in at : \A k \in at : j <= k
             IN  <<SubSeq(p, 1, i - 1)>> \o SplitAt(SubSeq(p, i + 1, Len(p)), ch)

\* The positional arguments of the root handler for the raw path.
RemainingPaths(raw) ==
    LET path == SplitAt(DropFirst(RStrip(raw, "/")), "?")[1]
    IN  IF path # <<>> THEN SplitAt(path, "/") ELSE <<>>

\* The local variables of __call__ when it leaves its try block: the failure
\* caught, or buffer and response_iterable; and the elements pulled so far.
Locals(failure, buffer, iterable, pulled, steps) ==
    [failure |-> failure, buffer |-> buffer, iterable |-> iterable,
     pulled |-> pulled, steps |-> steps]

\* Classify without the first next() of a generator.
ClassifyNoPrefetch(v) ==
    IF ~Truthy(v)
    THEN Locals(None, None, None, 0, <<>>)
    ELSE IF v.kind \in {"str", "bytes"}
    THEN Locals(None, None, Some(<<Item(v.kind, v.s)>>), 0, <<>>)
    ELSE IF v.kind \in {"gen", "list"}
    THEN Locals(None, None, Some(v.items), 0, <<>>)
    ELSE Locals(Some(ValueError), None, None, 0, <<>>)

\* The classification of the handler's return value.
Classify(v) ==
    IF ~Truthy(v)
    THEN Locals(None, None, None, 0, <<>>)
    ELSE IF v.kind \in {"str", "bytes"}
    THEN Locals(None, None, Some(<<Item(v.kind, v.s)>>), 0, <<>>)
    ELSE IF v.kind = "gen"
    THEN IF v.items = <<>>
         THEN Locals(Some(StopIteration), None, Some(<<>>), 0, <<>>)
         ELSE IF Head(v.items).t = "raise"
         THEN Locals(Some(RaisedBy(Head(v.items))), None, Some(<<>>), 0, <<>>)
         ELSE Locals(None, Some(Head(v.items)), Some(Tail(v.items)), 1, <<"pull">>)
    ELSE IF v.kind = "list"
    THEN Locals(None, None, Some(v.items), 0, <<>>)
    ELSE Locals(Some(ValueError), None, None, 0, <<>>)

\* The try block of __call__.
TryBlock(in) ==
    IF in.beginRequest = "raise"
    THEN Locals(Some(HookError), None, None, 0, <<"begin_request">>)
    ELSE IF in.raises # None
    THEN Locals(Some(in.raises[1]), None, None, 0, <<"begin_request", "handler">>)
    ELSE [Classify(in.value) EXCEPT !.steps = <<"begin_request", "handler">> \o @]

\* The lines of Cookie.output(), each split at its first ": ".
CookieHeaders(in) ==
    IF in.cookies = "one" THEN << <<"Set-Cookie", "k=v">> >> ELSE <<>>

\* What runs between the try block and the commit, outside any handler.
BeforeCommit(in) ==
    IF in.beginResponse = "raise" THEN Some(HookError)
    ELSE IF in.cookies = "fail" THEN Some(CookieError)
    ELSE None

-----------------------------------------------------------------------------
(* State *)

VARIABLES
    debug,      \* settings.debug
    ambient,    \* per thread: the current context, as a set of at most one
    ctx,        \* per context: entered or not, identity, times exited
    thread,     \* per request: the thread that serves it
    req,        \* per request: the input it was called with
    result,     \* per request: what __call__ gave the host
    gen,        \* per request: the frame of the generator _response()
    commits,    \* per request: the calls of start_response
    body,       \* per request: the chunks handed to the host
    pulled,     \* per request: elements taken from the handler's sequence
    envelope,   \* per request: the error envelope serialized
    logs,       \* per request: the records logged
    events,     \* per request: the lifecycle steps, in order
    exitCalls,  \* per request: the contexts its teardown exited
    readFrom,   \* per request: the contexts its error path read
    hostSaw,    \* per request: how the iteration ended for the host
    rawPath,    \* per request: the path of its environ
    segments,   \* per request: the arguments the root handler was called with
    heap        \* per failure object the handler keeps: its headers list

vars ==
    <<debug, ambient, ctx, thread, req, result, gen, commits, body, pulled,
      envelope, logs, events, exitCalls, readFrom, hostSaw, rawPath,
      segments, heap>>

\* The context of request r is the context r.
NewContext == [state |-> "none", identity |-> {}, exits |-> 0]

Frame(pc, buffer, iterable, pending) ==
    [pc |-> pc, buffer |-> buffer, iterable |-> iterable, pending |-> pending]

NoFrame == Frame("none", None, None, None)

Seen(t, f) == [t |-> t, f |-> f]

Init ==
    /\ debug \in BOOLEAN
    /\ ambient = [t \in Threads |-> {}]
    /\ ctx = [r \in Requests |-> NewContext]
    /\ thread = [r \in Requests |-> CHOOSE t \in Threads : TRUE]
    /\ req = [r \in Requests |-> NoInput]
    /\ result = [r \in Requests |-> "none"]
    /\ gen = [r \in Requests |-> NoFrame]
    /\ commits = [r \in Requests |-> <<>>]
    /\ body = [r \in Requests |-> <<>>]
    /\ pulled = [r \in Requests |-> 0]
    /\ envelope = [r \in Requests |-> NoEnvelope]
    /\ logs = [r \in Requests |-> <<>>]
    /\ events = [r \in Requests |-> <<>>]
    /\ exitCalls = [r \in Requests |-> <<>>]
    /\ readFrom = [r \in Requests |-> {}]
    /\ hostSaw = [r \in Requests |-> Seen("none", NoFailure)]
    /\ rawPath = [r \in Requests |-> RootPath]
    /\ segments = [r \in Requests |-> None]
    /\ heap = [f \in HTTPFailures |-> f.headers]

-----------------------------------------------------------------------------
(* The ambient context: nanohttp.contexts *)

\* Context.__enter__: the context becomes the current one of its thread.
Enter(amb, t, c) == [amb EXCEPT ![t] = {c}]

\* context.__exit__ through the proxy: the thread has no current context.
ExitAmbient(amb, t) == [amb EXCEPT ![t] = {}]

\* The contexts whose __exit__ runs when the proxy's is called on thread t.
Exited(cx, amb, t) ==
    [c \in DOMAIN cx |->
        IF c \in amb[t]
        THEN [cx[c] EXCEPT !.state = "exited", !.exits = @ + 1]
        ELSE cx[c]]

\* context.identity through the proxy.
AmbientIdentity(cx, amb, t) == UNION {cx[c].identity : c \in amb[t]}

-----------------------------------------------------------------------------
(* Application.__call__ *)

Commit(status, headers, excInfo, sent) ==
    [status |-> status, headers |-> headers, excInfo |-> excInfo, sent |-> sent]

\* The failure as _handle_exception finds it: an object the handler keeps
\* has the headers list it was left with.
Handled(in, ex, hp) ==
    IF in.kept /\ ex \in DOMAIN hp THEN [ex EXCEPT !.headers = hp[ex]] ELSE ex

\* The headers lists of the kept objects after _handle_exception: the list
\* of ex is the list response_headers names when ex.headers is not empty.
HeapAfter(in, ex, idn, hp) ==
    IF in.kept /\ ex \in DOMAIN hp /\ hp[ex] # <<>>
    THEN [hp EXCEPT ![ex] = ErrorHeaders(Handled(in, ex, hp), idn)]
    ELSE hp

\* The host calls the application for request r on thread t with the path
\* raw in its environ.
CallAt(r, t, in, raw) ==
    /\ result[r] = "none"
    /\ rawPath' = [rawPath EXCEPT ![r] = raw]
    /\ segments' = [segments EXCEPT ![r] =
           IF in.beginRequest = "ok" THEN Some(RemainingPaths(raw)) ELSE None]
    /\ LET loc == TryBlock(in)
           amb == Enter(ambient, t, r)
           cx == [ctx EXCEPT ![r] = [state |-> "entered",
                                     identity |-> in.identity, exits |-> 0]]
           entered == <<"enter">> \o loc.steps
       IN  /\ thread' = [thread EXCEPT ![r] = t]
           /\ req' = [req EXCEPT ![r] = in]
           /\ pulled' = [pulled EXCEPT ![r] = loc.pulled]
           /\ IF loc.failure # None
              THEN \* except Exception as ex: return self._handle_exception(...)
                   LET ex == Handled(in, loc.failure[1], heap)
                       idn == AmbientIdentity(cx, amb, t)
                   IN  /\ heap' = HeapAfter(in, loc.failure[1], idn, heap)
                       /\ commits' = [commits EXCEPT ![r] = Append(@,
                              Commit(ErrorStatus(ex),
                                     ErrorHeaders(ex, idn),
                                     ex.kind # "http", Len(body[r])))]
                       /\ readFrom' = [readFrom EXCEPT ![r] = amb[t]]
                       /\ envelope' = [envelope EXCEPT ![r] = Envelope(ex, debug)]
                       /\ logs' = [logs EXCEPT ![r] = @ \o ErrorLog(ex, debug)]
                       /\ events' = [events EXCEPT ![r] =
                              entered \o <<"commit", "end_response", "exit">>]
                       /\ exitCalls' = [exitCalls EXCEPT ![r] = Append(@, amb[t])]
                       /\ ctx' = Exited(cx, amb, t)
                       /\ ambient' = ExitAmbient(amb, t)
                       /\ body' = [body EXCEPT ![r] = ErrorBody(ex)]
                       /\ result' = [result EXCEPT ![r] = "list"]
                       /\ hostSaw' = [hostSaw EXCEPT ![r] = Seen("complete", NoFailure)]
                       /\ UNCHANGED gen
              ELSE IF BeforeCommit(in) # None
              THEN \* the failure leaves __call__
                   /\ events' = [events EXCEPT ![r] =
                          entered \o <<"begin_response">>
                          \o (IF in.beginResponse = "raise" THEN <<>> ELSE <<"cookies">>)]
                   /\ result' = [result EXCEPT ![r] = "raised"]
                   /\ hostSaw' = [hostSaw EXCEPT ![r] = Seen("failure", BeforeCommit(in)[1])]
                   /\ ctx' = cx
                   /\ ambient' = amb
                   /\ UNCHANGED <<gen, commits, body, envelope, logs, exitCalls,
                                  readFrom, heap>>
              ELSE /\ commits' = [commits EXCEPT ![r] = Append(@,
                          Commit(STATUS_OK, CookieHeaders(in), FALSE, Len(body[r])))]
                   /\ events' = [events EXCEPT ![r] =
                          entered \o <<"begin_response", "cookies", "commit">>]
                   /\ gen' = [gen EXCEPT ![r] =
                          Frame("created", loc.buffer, loc.iterable, None)]
                   /\ result' = [result EXCEPT ![r] = "generator"]
                   /\ ctx' = cx
                   /\ ambient' = amb
                   /\ UNCHANGED <<body, envelope, logs, exitCalls, readFrom, hostSaw,
                                  heap>>
    /\ UNCHANGED debug

Call(r, t, in) == CallAt(r, t, in, RootPath)

-----------------------------------------------------------------------------
(* The generator _response() *)

\* What one resumption of the generator comes to: a chunk yielded from the
\* try block, a failure raised in it, or its end.
Step(kind, chunk, failure, pc, iterable, steps) ==
    [kind |-> kind, chunk |-> chunk, failure |-> failure, pc |-> pc,
     iterable |-> iterable, steps |-> steps]

\* for chunk in response_iterable: yield context_.encode_response(chunk)
PullNext(g) ==
    LET rest == g.iterable[1]
    IN  IF rest = <<>>
        THEN Step("end", Bytes(""), NoFailure, "finished", g.iterable, <<>>)
        ELSE IF Head(rest).t = "raise"
        THEN Step("fail", Bytes(""), RaisedBy(Head(rest)), "finished", Some(<<>>), <<>>)
        ELSE IF Encodable(Head(rest))
        THEN Step("yield", Encode(Head(rest)), NoFailure, "yChunk", Some(Tail(rest)),
                  <<"pull", "chunk">>)
        ELSE Step("fail", Bytes(""), TypeError, "finished", Some(Tail(rest)), <<"pull">>)

\* if response_iterable: ... else: yield b''
IterSection(g) ==
    IF g.iterable # None
    THEN PullNext(g)
    ELSE Step("yield", Bytes(""), NoFailure, "yEmpty", g.iterable, <<"chunk">>)

\* FromStart without the yield of the prefetched element.
FromStartDropsBuffer(g) == IterSection(g)

\* if buffer is not None: yield context_.encode_response(buffer)
FromStart(g) ==
    IF g.buffer # None
    THEN IF Encodable(g.buffer[1])
         THEN Step("yield", Encode(g.buffer[1]), NoFailure, "yBuffer", g.iterable, <<"chunk">>)
         ELSE Step("fail", Bytes(""), TypeError, "finished", g.iterable, <<>>)
    ELSE IterSection(g)

\* Resumed without the raise after the trailer: the generator just ends.
ResumedNoReraise(g) ==
    CASE g.pc = "created" -> FromStart(g)
      [] g.pc = "yBuffer" -> IterSection(g)
      [] g.pc = "yChunk" -> PullNext(g)
      [] g.pc \in {"yEmpty", "yTrailer"} ->
            Step("end", Bytes(""), NoFailure, "finished", g.iterable, <<>>)

\* The generator resumed where it is suspended.
Resumed(g) ==
    CASE g.pc = "created" -> FromStart(g)
      [] g.pc = "yBuffer" -> IterSection(g)
      [] g.pc = "yChunk" -> PullNext(g)
      [] g.pc = "yEmpty" -> Step("end", Bytes(""), NoFailure, "finished", g.iterable, <<>>)
      [] g.pc = "yTrailer" -> Step("raise", Bytes(""), g.pending[1], "finished", g.iterable, <<>>)

Count(q, x) == Cardinality({i \in DOMAIN q : q[i] = x})

\* The finally block: the end_response hook, then context.__exit__.
Teardown(r, steps) ==
    /\ events' = [events EXCEPT ![r] = @ \o steps \o <<"end_response", "exit">>]
    /\ exitCalls' = [exitCalls EXCEPT ![r] = Append(@, ambient[thread[r]])]
    /\ ctx' = Exited(ctx, ambient, thread[r])
    /\ ambient' = ExitAmbient(ambient, thread[r])

ExceptionLog == [level |-> "exception", statusCode |-> 0,
                 message |-> <<"Exception while serving the response.", "">>,
                 stackTrace |-> NullTrace]

\* The host asks the generator of request r for its next chunk.
Resume(r) ==
    /\ result[r] = "generator"
    /\ gen[r].pc # "finished"
    /\ LET st == Resumed(gen[r])
           trailer == st.kind = "fail" /\ debug
       IN  /\ pulled' = [pulled EXCEPT ![r] = @ + Count(st.steps, "pull")]
           /\ logs' = [logs EXCEPT ![r] =
                  IF st.kind = "fail"
                  THEN Append(@, [ExceptionLog EXCEPT !.stackTrace = StackTrace(st.failure)])
                  ELSE @]
           /\ gen' = [gen EXCEPT ![r] =
                  IF trailer
                  THEN Frame("yTrailer", None, st.iterable, Some(st.failure))
                  ELSE Frame(st.pc, None, st.iterable, None)]
           /\ body' = [body EXCEPT ![r] =
                  IF st.kind = "yield" THEN Append(@, st.chunk)
                  ELSE IF trailer THEN Append(@, Bytes(st.failure.text))
                  ELSE @]
           /\ IF st.kind = "yield" \/ trailer
              THEN /\ events' = [events EXCEPT ![r] =
                          @ \o st.steps
                          \o (IF trailer THEN <<"log", "trailer">> ELSE <<>>)]
                   /\ UNCHANGED <<exitCalls, ctx, ambient, hostSaw>>
              ELSE /\ Teardown(r, st.steps
                          \o (IF st.kind = "fail" THEN <<"log">> ELSE <<>>))
                   /\ hostSaw' = [hostSaw EXCEPT ![r] =
                          IF st.kind = "end" THEN Seen("complete", NoFailure)
                          ELSE Seen("failure", st.failure)]
    /\ UNCHANGED <<debug, thread, req, result, commits, envelope, readFrom,
                   rawPath, segments, heap>>

\* The host closes the generator of request r: GeneratorExit is raised at the
\* yield it is suspended at, and nothing runs if it never started.
Close(r) ==
    /\ result[r] = "generator"
    /\ gen[r].pc # "finished"
    /\ gen' = [gen EXCEPT ![r] = Frame("finished", None, @.iterable, None)]
    /\ hostSaw' = [hostSaw EXCEPT ![r] = Seen("closed", NoFailure)]
    /\ IF gen[r].pc = "created"
       THEN UNCHANGED <<events, exitCalls, ctx, ambient>>
       ELSE Teardown(r, <<>>)
    /\ UNCHANGED <<debug, thread, req, result, commits, body, pulled, envelope,
                   logs, readFrom, rawPath, segments, heap>>

-----------------------------------------------------------------------------
(* Specifications *)

\* One request, every input.
Next ==
    \/ \E t \in Threads, in \in Inputs : Call(1, t, in)
    \/ Resume(1)
    \/ Close(1)

Spec == Init /\ [][Next]_vars

\* Two requests, served on the same thread or on two, each called and
\* iterated in any order the host may choose.
ConcInputs ==
    InputsOver({Value("str", "Index", <<>>),
                Value("gen", "", <<Item("str", "a"), Item("str", "b")>>)},
               {HTTPNotFound})

NextConc ==
    \E r \in Requests :
        \/ \E t \in Threads, in \in ConcInputs : Call(r, t, in)
        \/ Resume(r)
        \/ Close(r)

SpecConc == Init /\ [][NextConc]_vars

-----------------------------------------------------------------------------
(* Properties *)

Terminated(r) ==
    \/ result[r] \in {"list", "raised"}
    \/ result[r] = "generator" /\ gen[r].pc = "finished"

\* The chunks a handler's return value stands for, in order.
ChunksOf(v) ==
    IF v.kind \in {"str", "bytes"} THEN <<Item(v.kind, v.s)>> ELSE v.items

\* The handler of request r returned (nothing failed before or in it).
Returned(r) ==
    /\ result[r] # "none"
    /\ req[r].beginRequest = "ok"
    /\ req[r].raises = None

Streams(r) == result[r] = "generator"

Last(q) == q[Len(q)]

EndsWith(q, tail) ==
    /\ Len(q) >= Len(tail)
    /\ SubSeq(q, Len(q) - Len(tail) + 1, Len(q)) = tail

\* The positions of event x in the lifecycle of request r.
At(r, x) == {i \in DOMAIN events[r] : events[r][i] = x}

RECURSIVE TotalLength(_)
TotalLength(q) == IF q = <<>> THEN 0 ELSE Len(Head(q).s) + TotalLength(Tail(q))

\* C1: on each of the four termination paths (the body streamed to its end,
\* the error response, a failure while streaming, the host closing the
\* body), the context of the request has been exited exactly once.
C1_ExitExactlyOnce ==
    \A r \in Requests :
        /\ ctx[r].exits <= 1
        /\ Terminated(r) /\ result[r] # "raised" => ctx[r].exits = 1

\* C2: a terminated request has called start_response exactly once, and no
\* call of start_response came after a chunk was handed to the host.
C2_CommitExactlyOnce ==
    \A r \in Requests :
        /\ \A i \in DOMAIN commits[r] : commits[r][i].sent = 0
        /\ Len(commits[r]) <= 1
        /\ Terminated(r) => Len(commits[r]) = 1

\* C3: for a handler that returned a generator: a success commit comes after
\* exactly one pull; there is none when the first pull failed (the response
\* is then the error response); and the elements pulled exceed the chunks
\* streamed by one at most and are never fewer.
C3_PrefetchOneThenLazy ==
    \A r \in Requests :
        Returned(r) /\ req[r].value.kind = "gen" =>
            LET items == req[r].value.items
                firstFails == items = <<>> \/ Head(items).t = "raise"
                pulls == Count(events[r], "pull")
                chunks == Count(events[r], "chunk")
            IN  /\ Streams(r) =>
                    /\ ~firstFails
                    /\ commits[r] # <<>> /\ commits[r][1].status = STATUS_OK
                    /\ \A c \in At(r, "commit") :
                           Cardinality({i \in At(r, "pull") : i < c}) = 1
                /\ firstFails =>
                    /\ result[r] = "list"
                    /\ \A i \in DOMAIN commits[r] : commits[r][i].status # STATUS_OK
                    /\ pulls = 0
                /\ pulls = pulled[r]
                /\ chunks <= pulls /\ pulls <= chunks + 1

C3_Witness ==
    \E r \in Requests :
        /\ Returned(r) /\ req[r].value.kind = "gen" /\ Streams(r)
        /\ Count(events[r], "pull") = 2 /\ Count(events[r], "chunk") = 2

\* C4: a truthy string, byte buffer, generator or other iterable whose body
\* was streamed to its end without a failure was answered 200 OK with the
\* encoded chunks, each once and in order; a string or byte buffer is one
\* chunk; and a stream fails only at a chunk that cannot be had.
C4_BodyIsTheChunksInOrder ==
    \A r \in Requests :
        Returned(r) /\ req[r].value \notin FalsyValues /\ Streams(r) =>
            LET chunks == ChunksOf(req[r].value)
            IN  /\ hostSaw[r].t = "complete" =>
                    /\ commits[r] = <<Commit(STATUS_OK, CookieHeaders(req[r]), FALSE, 0)>>
                    /\ body[r] = [i \in DOMAIN chunks |-> Bytes(chunks[i].s)]
                    /\ req[r].value.kind \in {"str", "bytes"} => Len(body[r]) = 1
                /\ hostSaw[r].t = "failure" =>
                    \E i \in DOMAIN chunks : chunks[i].t \notin {"str", "bytes"}

C4_Witness ==
    \E r \in Requests :
        /\ Returned(r) /\ req[r].value.kind = "gen" /\ Streams(r)
        /\ hostSaw[r].t = "complete"
        /\ body[r] = <<Bytes("a"), Bytes("b")>>

\* C5: a handler that returned a falsy value is answered 200 OK and nothing
\* else, with a body of total length zero (the one chunk b'' once streamed
\* to its end), and never with an error response.
C5_FalsyIsEmpty200 ==
    \A r \in Requests :
        Returned(r) /\ req[r].value \in FalsyValues =>
            /\ result[r] # "list"
            /\ envelope[r] = NoEnvelope
            /\ \A i \in DOMAIN commits[r] : commits[r][i].status = STATUS_OK
            /\ TotalLength(body[r]) = 0
            /\ Streams(r) => Len(commits[r]) = 1
            /\ hostSaw[r].t # "failure" \/ result[r] = "raised"
            /\ hostSaw[r].t = "complete" => body[r] = <<Bytes("")>>

C5_Witness ==
    \E r \in Requests :
        /\ Returned(r) /\ req[r].value = Value("int", "0", <<>>)
        /\ hostSaw[r].t = "complete" /\ body[r] = <<Bytes("")>>

\* C6: a failure reaches the host only after the commit: a request whose
\* failure the host saw has committed its status line before.
C6_OnlyMidStreamFailuresEscape ==
    \A r \in Requests :
        hostSaw[r].t = "failure" => result[r] = "generator" /\ Len(commits[r]) = 1

\* The first chunk of v that cannot be had: one the generator raises at, or
\* one that has no encode; 0 when there is none.
FirstBad(v) ==
    LET chunks == ChunksOf(v)
        bad == {i \in DOMAIN chunks : chunks[i].t \notin {"str", "bytes"}}
    IN  IF bad = {} THEN 0 ELSE CHOOSE i \in bad : \A j \in bad : i <= j

\* C7: once a chunk failed after the commit: the commit stays the one 200 OK
\* commit, the failure is logged once, nothing more is pulled or streamed,
\* the failure's text follows as one more chunk exactly when debug is on, and
\* the host, unless it closes the body first, gets that same failure, after
\* the end_response hook and the context exit.
C7_MidStreamFailure ==
    \A r \in Requests :
        Streams(r) /\ Count(events[r], "log") > 0 =>
            LET v == req[r].value
                k == FirstBad(v)
                bad == ChunksOf(v)[k]
                failure == IF bad.t = "raise" THEN RaisedBy(bad) ELSE TypeError
                logged == CHOOSE i \in At(r, "log") : TRUE
            IN  /\ k > 0
                /\ commits[r] = <<Commit(STATUS_OK, CookieHeaders(req[r]), FALSE, 0)>>
                /\ Count(events[r], "log") = 1
                /\ logs[r] = <<[ExceptionLog EXCEPT !.stackTrace = StackTrace(failure)]>>
                /\ \A i \in At(r, "pull") \cup At(r, "chunk") : i < logged
                /\ pulled[r] = IF bad.t = "raise" THEN k - 1 ELSE k
                /\ Count(events[r], "trailer") = IF debug THEN 1 ELSE 0
                /\ debug => /\ events[r][logged + 1] = "trailer"
                            /\ Last(body[r]) = Bytes(failure.text)
                /\ Len(body[r]) = (k - 1) + (IF debug THEN 1 ELSE 0)
                /\ Terminated(r) /\ hostSaw[r].t # "closed" =>
                       hostSaw[r] = Seen("failure", failure)
                /\ Terminated(r) =>
                       /\ EndsWith(events[r], <<"end_response", "exit">>)
                       /\ Count(events[r], "end_response") = 1
                       /\ Len(exitCalls[r]) = 1
                /\ ~debug => Terminated(r)

C7_Witness ==
    \E r \in Requests :
        /\ debug /\ Streams(r)
        /\ hostSaw[r] = Seen("failure", Boom)
        /\ body[r] = <<Bytes("a"), Bytes("boom")>>

\* C8: a body the host closed after the commit was torn down: the
\* end_response hook ran and the context was exited, once each.
C8_HostAbortTearsDown ==
    \A r \in Requests :
        hostSaw[r].t = "closed" =>
            /\ Count(events[r], "end_response") = 1
            /\ EndsWith(events[r], <<"end_response", "exit">>)
            /\ ctx[r].exits = 1

\* C9: the teardown of a request exits the context entered for that request
\* and no other, and its error path reads the identity of no other context.
C9_OwnContextOnly ==
    \A r \in Requests :
        /\ \A i \in DOMAIN exitCalls[r] : exitCalls[r][i] = {r}
        /\ readFrom[r] \subseteq {r}

\* C10: the envelope of a recognized failure carries the failure's custom
\* code when it has one and the code of its status when it has none, and
\* the status line committed is the failure's status either way.
C10_CustomCodeInEnvelope ==
    \A r \in Requests :
        result[r] = "list" /\ req[r].beginRequest = "ok" /\ req[r].raises # None =>
            LET f == req[r].raises[1]
            IN  f.kind = "http" =>
                    /\ Len(commits[r]) = 1
                    /\ commits[r][1].status = f.status
                    /\ f.custom # {} => envelope[r].statusCode \in f.custom
                    /\ f.custom = {} => envelope[r].statusCode = f.status.code

C10_Witness ==
    \E r \in Requests :
        /\ result[r] = "list" /\ req[r].raises = Some(HTTPBadRequest)
        /\ envelope[r].statusCode = 4001
        /\ commits[r][1].status.code = 400

-----------------------------------------------------------------------------
(* More specifications *)

\* Two requests through the error path, by failures built for the request
\* or kept by the handler.
ErrInputs == InputsOver({Value("int", "5", <<>>)}, HTTPFailures \cup {Boom})

NextErr == \E r \in Requests, t \in Threads, in \in ErrInputs : Call(r, t, in)

SpecErr == Init /\ [][NextErr]_vars

\* One request, every path.
PathInputs == InputsOver({Value("str", "Index", <<>>)}, {HTTPNotFound})

NextPath ==
    \/ \E t \in Threads, in \in PathInputs, raw \in Paths : CallAt(1, t, in, raw)
    \/ Resume(1)
    \/ Close(1)

SpecPath == Init /\ [][NextPath]_vars

-----------------------------------------------------------------------------
(* Properties of the error path *)

\* The error path handled request r.
ErrorPath(r) == result[r] = "list"

\* The input makes the error path handle a failure that is no HTTPStatus.
Unrecognized(in) ==
    \/ in.beginRequest = "raise"
    \/ in.raises # None /\ in.raises[1].kind = "other"
    \/ /\ in.beginRequest = "ok" /\ in.raises = None
       /\ \/ in.value \in UnsupportedValues
          \/ /\ in.value.kind = "gen"
             /\ \/ in.value.items = <<>>
                \/ Head(in.value.items) = Item("raise", "boom")

IdentityHeader(in) ==
    IF in.identity = {} THEN <<>> ELSE << <<"X-Identity", "7">> >>

\* C11: the stackTrace of an error envelope is null exactly when debug is
\* off.
C11_StackTraceIffDebug ==
    \A r \in Requests :
        ErrorPath(r) =>
            /\ envelope[r].stackTrace.null <=> ~debug
            /\ req[r].raises # None /\ debug =>
                   envelope[r].stackTrace = [null |-> FALSE, of |-> req[r].raises[1].text]

C11_Witness ==
    \E r \in Requests :
        /\ debug /\ ErrorPath(r) /\ req[r].raises = Some(Boom)
        /\ envelope[r].stackTrace.null = FALSE

\* C12: a failure that is no HTTPStatus, the unsupported return type among
\* them, is answered 500 Internal Server Error with code 500 and the generic
\* message; with debug off the status line, headers, envelope and body are
\* the same whatever the failure was.
C12_InternalFailuresLookAlike ==
    \A r \in Requests :
        /\ Returned(r) /\ req[r].value \in UnsupportedValues => ErrorPath(r)
        /\ ErrorPath(r) /\ Unrecognized(req[r]) =>
            /\ Len(commits[r]) = 1
            /\ commits[r][1].status = Status(500, "Internal Server Error")
            /\ envelope[r].statusCode = 500
            /\ envelope[r].message = "Internal Server Error"
            /\ ~debug =>
                /\ commits[r][1].headers =
                       << <<"content-type", "text/plain">> >> \o IdentityHeader(req[r])
                /\ envelope[r] = [statusCode |-> 500,
                                  message |-> "Internal Server Error",
                                  stackTrace |-> [null |-> TRUE, of |-> ""],
                                  messageFa |-> "fa500"]
                /\ body[r] = <<JsonChunk>>

C12_Witness ==
    \E r \in Requests :
        /\ ~debug /\ ErrorPath(r) /\ Returned(r)
        /\ req[r].value = Value("int", "5", <<>>)
        /\ envelope[r].statusCode = 500

ErrorRecords(r) == SelectSeq(logs[r], LAMBDA l : l.level = "error")

\* C13, as claimed: one error record exactly when the code of the status
\* line is 400 or 500, with or without a custom code.
C13_LoggedByStatusCode ==
    \A r \in Requests :
        ErrorPath(r) =>
            IF commits[r][1].status.code \in {400, 500}
            THEN Len(ErrorRecords(r)) = 1
            ELSE ErrorRecords(r) = <<>>

\* C13, amended: one error record, with the code, the message with the extra
\* string and the trace, debug on or off, exactly when the statusCode of the
\* envelope (the custom code if the failure has one) is 400 or 500.
C13_LoggedByEnvelopeCode ==
    \A r \in Requests :
        ErrorPath(r) =>
            IF envelope[r].statusCode \in {400, 500}
            THEN /\ Len(ErrorRecords(r)) = 1
                 /\ ErrorRecords(r)[1].statusCode = envelope[r].statusCode
                 /\ ErrorRecords(r)[1].message[1] = envelope[r].message
                 /\ ErrorRecords(r)[1].stackTrace.null = FALSE
                 /\ req[r].raises # None =>
                        /\ ErrorRecords(r)[1].message[2] = req[r].raises[1].text
                        /\ ErrorRecords(r)[1].stackTrace.of = req[r].raises[1].text
            ELSE ErrorRecords(r) = <<>>

C13_Witness ==
    \E r \in Requests :
        /\ ~debug /\ ErrorPath(r) /\ req[r].raises = Some(HTTPConflict)
        /\ commits[r][1].status.code = 409
        /\ Len(ErrorRecords(r)) = 1

\* C14: the error path commits once; the body is empty when the code of the
\* status line is a no-content code, though the envelope was built, and is
\* the serialized envelope as one chunk otherwise.
C14_NoContentHasNoBody ==
    \A r \in Requests :
        ErrorPath(r) =>
            /\ Len(commits[r]) = 1
            /\ envelope[r] # NoEnvelope
            /\ IF commits[r][1].status.code \in NO_CONTENT_STATUSES
               THEN body[r] = <<>>
               ELSE body[r] = <<JsonChunk>>

C14_Witness ==
    \E r \in Requests :
        /\ ErrorPath(r) /\ req[r].raises = Some(HTTPNotModified)
        /\ commits[r][1].status.code = 304
        /\ body[r] = <<>> /\ envelope[r].statusCode = 304

\* C15: the headers of an error response are the overrides of the failure
\* alone when it has any, else the default content-type header, followed by
\* one X-Identity header exactly when the context has an identity.
C15_ErrorHeaders ==
    \A r \in Requests :
        ErrorPath(r) /\ req[r].beginRequest = "ok" /\ req[r].raises # None =>
            LET f == req[r].raises[1]
            IN  commits[r][1].headers =
                    (IF f.kind = "http" /\ f.headers # <<>> THEN f.headers
                     ELSE << <<"content-type", "text/plain">> >>)
                    \o IdentityHeader(req[r])

-----------------------------------------------------------------------------
(* Properties of the path, the lifecycle and the failure objects *)

\* The characters of p before its first "?".
RECURSIVE BeforeQuery(_)
BeforeQuery(p) ==
    IF p = <<>> \/ Head(p) = "?" THEN <<>> ELSE <<Head(p)>> \o BeforeQuery(Tail(p))

\* The maximal runs of characters other than "/" in p, in order.
RECURSIVE Parts(_, _)
Parts(p, run) ==
    IF p = <<>> THEN (IF run = <<>> THEN <<>> ELSE <<run>>)
    ELSE IF Head(p) = "/"
    THEN (IF run = <<>> THEN <<>> ELSE <<run>>) \o Parts(Tail(p), <<>>)
    ELSE Parts(Tail(p), Append(run, Head(p)))

\* C16: the arguments of the root handler are the non-empty parts of the
\* path without its query string, in order, none of them empty.
C16_ArgumentsAreTheNonEmptyParts ==
    \A r \in Requests :
        segments[r] # None =>
            /\ segments[r][1] = Parts(BeforeQuery(rawPath[r]), <<>>)
            /\ \A i \in DOMAIN segments[r][1] : segments[r][1][i] # <<>>

\* C17: two calls with the same input, path and configuration, their bodies
\* iterated to the end, give the same status line, headers, envelope and
\* body.
C17_SameInputSameResponse ==
    \A r1, r2 \in Requests :
        /\ Terminated(r1) /\ Terminated(r2)
        /\ req[r1] = req[r2] /\ rawPath[r1] = rawPath[r2]
        /\ hostSaw[r1] = hostSaw[r2] /\ hostSaw[r1].t # "closed"
        => /\ commits[r1] = commits[r2]
           /\ envelope[r1] = envelope[r2]
           /\ body[r1] = body[r2]

\* The first position of event x in the lifecycle of request r, 0 if none.
First(r, x) ==
    IF At(r, x) = {} THEN 0 ELSE CHOOSE i \in At(r, x) : \A j \in At(r, x) : i <= j

\* The events xs occur in the lifecycle of request r, once each, in this
\* order.
InOrder(r, xs) ==
    /\ \A i \in DOMAIN xs : Count(events[r], xs[i]) = 1
    /\ \A i, j \in DOMAIN xs : i < j => First(r, xs[i]) < First(r, xs[j])

\* C18: the lifecycle of a request that is over: enter, begin_request, the
\* handler if the hook let it run; then either begin_response, cookies,
\* commit, the chunks, end_response, exit, or, after a failure before the
\* commit, commit, end_response, exit without begin_response; the
\* end_response hook once on every path, after the commit and before the exit.
C18_LifecycleOrder ==
    \A r \in Requests :
        Terminated(r) =>
            /\ InOrder(r, <<"enter", "begin_request">>)
            /\ req[r].beginRequest = "ok" =>
                   InOrder(r, <<"enter", "begin_request", "handler">>)
            /\ InOrder(r, <<"commit", "end_response", "exit">>)
            /\ First(r, "handler") < First(r, "commit")
            /\ IF At(r, "begin_response") # {}
               THEN /\ InOrder(r, <<"handler", "begin_response", "cookies", "commit">>)
                    /\ \A i \in At(r, "chunk") :
                           First(r, "commit") < i /\ i < First(r, "end_response")
               ELSE /\ ErrorPath(r)
                    /\ At(r, "chunk") = {}

\* C19: a generator that ends without an element is answered 200 OK with an
\* empty body, not with an error response.
C19_EmptyGeneratorIsEmpty200 ==
    \A r \in Requests :
        Returned(r) /\ req[r].value = Value("gen", "", <<>>) =>
            /\ ~ErrorPath(r)
            /\ \A i \in DOMAIN commits[r] : commits[r][i].status = STATUS_OK
            /\ TotalLength(body[r]) = 0

\* C20: the error path leaves the headers list of the failure as it was, and
\* a failure handled again has one X-Identity header in its response.
C20_FailureObjectUnchanged ==
    /\ \A f \in HTTPFailures : heap[f] = f.headers
    /\ \A r \in Requests :
           ErrorPath(r) /\ req[r].identity # {} =>
               Count(commits[r][1].headers, <<"X-Identity", "7">>) = 1

=============================================================================
